---- MODULE Spec2Model ----
(***************************************************************************)
(* Account synchronization pipeline of the trading journal:                *)
(*   - Credential Vault  (backend/app/services/encryption_service.py and   *)
(*                        the Worker's copy in vps/mt5_sync_service.py)    *)
(*   - Scheduling Gateway (backend/app/routes/mt5.py)                      *)
(*   - Sync Worker and Ledger write (vps/mt5_sync_service.py)              *)
(* Time is counted in whole minutes.  Strings are sequences of code        *)
(* points, byte strings are sequences of 0..255, base64 text is a sequence *)
(* of alphabet indices 0..63 with 64 standing for the '=' pad character.   *)
(***************************************************************************)
EXTENDS Integers, Sequences, FiniteSets, TLC

\* Python's None for an Optional[str] / Optional[datetime], and the raised
\* exceptions of the byte-level routines, as values of the result's own type
None == <<-1>>
NoTime == -1
DecodeError == <<-2>>
B64Error == <<-3>>
PadError == <<-4>>
InvalidToken == <<-5>>
Exception == <<-6>>

(***************************************************************************)
(* Byte-level helpers                                                      *)
(***************************************************************************)
\* bitwise exclusive-or of two bytes
Xor(a, b) ==
    LET bit(d) == ((((a \div d) % 2) + ((b \div d) % 2)) % 2) * d
    IN  bit(1) + bit(2) + bit(4) + bit(8) + bit(16) + bit(32) + bit(64) + bit(128)

\* (every byte string is kept as an explicit tuple: `\o <<>>' fixes its value)
XorBytes(x, y) == [i \in 1..Len(x) |-> Xor(x[i], y[i])] \o <<>>

\* str.encode(): UTF-8, one byte below U+0080, two bytes below U+0800
RECURSIVE Utf8Encode(_)
Utf8Encode(s) ==
    IF Len(s) = 0 THEN <<>>
    ELSE (IF s[1] < 128 THEN <<s[1]>>
          ELSE <<192 + (s[1] \div 64), 128 + (s[1] % 64)>>) \o Utf8Encode(Tail(s))

\* bytes.decode(): the inverse; DecodeError when the bytes are not UTF-8
RECURSIVE Utf8Decode(_)
Utf8Decode(bs) ==
    IF Len(bs) = 0 THEN <<>>
    ELSE IF bs[1] < 128 THEN
        LET rest == Utf8Decode(Tail(bs))
        IN  IF rest = DecodeError THEN DecodeError ELSE <<bs[1]>> \o rest
    ELSE IF bs[1] >= 194 /\ bs[1] < 224 /\ Len(bs) >= 2 /\ bs[2] >= 128 /\ bs[2] < 192 THEN
        LET rest == Utf8Decode(SubSeq(bs, 3, Len(bs)))
        IN  IF rest = DecodeError THEN DecodeError
            ELSE <<(bs[1] - 192) * 64 + (bs[2] - 128)>> \o rest
    ELSE DecodeError

\* base64.urlsafe_b64encode
B64Encode(bs) ==
    LET n == Len(bs)
        B(i) == IF i <= n THEN bs[i] ELSE 0
    IN  [k \in 1..(4 * ((n + 2) \div 3)) |->
            LET q == (k - 1) \div 4
                r == (k - 1) % 4
                b1 == B(3 * q + 1)
                b2 == B(3 * q + 2)
                b3 == B(3 * q + 3)
            IN  CASE r = 0 -> b1 \div 4
                  [] r = 1 -> (b1 % 4) * 16 + (b2 \div 16)
                  [] r = 2 -> IF 3 * q + 2 > n THEN 64 ELSE (b2 % 16) * 4 + (b3 \div 64)
                  [] r = 3 -> IF 3 * q + 3 > n THEN 64 ELSE b3 % 64] \o <<>>

\* base64.urlsafe_b64decode: B64Error on a length that is not a multiple
\* of four or on misplaced padding
B64Decode(s) ==
    LET m == Len(s)
        pads == Cardinality({k \in 1..m : s[k] = 64})
        S(k) == IF s[k] = 64 THEN 0 ELSE s[k]
    IN  IF m % 4 # 0 \/ pads > 2 \/ (\E k \in 1..m : s[k] = 64 /\ k <= m - pads)
        THEN B64Error
        ELSE [j \in 1..((m \div 4) * 3 - pads) |->
                LET q == (j - 1) \div 3
                    r == (j - 1) % 3
                IN  CASE r = 0 -> S(4 * q + 1) * 4 + (S(4 * q + 2) \div 16)
                      [] r = 1 -> (S(4 * q + 2) % 16) * 16 + (S(4 * q + 3) \div 4)
                      [] r = 2 -> (S(4 * q + 3) % 4) * 64 + S(4 * q + 4)] \o <<>>

(***************************************************************************)
(* Cipher primitives.  AES and SHA-256 are library code; they are stood in *)
(* for by a keyed byte permutation and a keyed position-weighted checksum  *)
(* with the same block, key and tag sizes, so that layout, padding, CBC    *)
(* chaining and key selection are exercised as the callers use them.        *)
(***************************************************************************)
AES_BLOCK == 16
HMAC_LEN == 32
FERNET_VERSION == 128

AesEncryptBlock(k, b) ==
    [i \in 1..AES_BLOCK |-> (Xor(b[(i % AES_BLOCK) + 1], k[i]) + k[(i % AES_BLOCK) + 1] + i) % 256] \o <<>>

AesDecryptBlock(k, c) ==
    [j \in 1..AES_BLOCK |->
        LET i == IF j = 1 THEN AES_BLOCK ELSE j - 1
        IN  Xor((c[i] + 512 - k[(i % AES_BLOCK) + 1] - i) % 256, k[i])] \o <<>>

Pkcs7Pad(bs) ==
    LET p == AES_BLOCK - (Len(bs) % AES_BLOCK)
    IN  bs \o [i \in 1..p |-> p]

\* PadError when the trailing bytes are not a PKCS#7 padding
Pkcs7Unpad(bs) ==
    IF Len(bs) = 0 \/ Len(bs) % AES_BLOCK # 0 THEN PadError
    ELSE LET p == bs[Len(bs)]
         IN  IF p < 1 \/ p > AES_BLOCK THEN PadError
             ELSE IF \E i \in (Len(bs) - p + 1)..Len(bs) : bs[i] # p THEN PadError
             ELSE SubSeq(bs, 1, Len(bs) - p)

RECURSIVE CbcEncrypt(_, _, _)
CbcEncrypt(k, prev, pt) ==
    IF Len(pt) = 0 THEN <<>>
    ELSE LET c == AesEncryptBlock(k, XorBytes(SubSeq(pt, 1, AES_BLOCK), prev))
         IN  c \o CbcEncrypt(k, c, SubSeq(pt, AES_BLOCK + 1, Len(pt)))

RECURSIVE CbcDecrypt(_, _, _)
CbcDecrypt(k, prev, ct) ==
    IF Len(ct) < AES_BLOCK THEN <<>>
    ELSE LET c == SubSeq(ct, 1, AES_BLOCK)
         IN  XorBytes(AesDecryptBlock(k, c), prev)
                 \o CbcDecrypt(k, c, SubSeq(ct, AES_BLOCK + 1, Len(ct)))

RECURSIVE WeightedSum(_, _, _)
WeightedSum(data, w, j) ==
    IF j = 0 THEN 0 ELSE (((w * j) % 251) + 1) * data[j] + WeightedSum(data, w, j - 1)

HmacTag(k, data) ==
    LET n == Len(data)
        s1 == WeightedSum(data, 0, n)
        s2 == WeightedSum(data, 1, n)
    IN  [i \in 1..HMAC_LEN |-> (k[((i - 1) % 16) + 1] + s1 + i * s2 + n) % 256] \o <<>>

\* 8-byte big-endian creation time
TimestampBytes(t) ==
    [i \in 1..8 |-> IF i = 8 THEN t % 256 ELSE IF i = 7 THEN (t \div 256) % 256 ELSE 0] \o <<>>

(***************************************************************************)
(* Credential Vault: Gateway (Fernet) and the Worker's hand-written copy    *)
(***************************************************************************)
\* both __init__: the passphrase bytes brought to exactly 32 bytes
\* (truncated, or right-padded with the character '0')
NormalizeKey(key_bytes) ==
    IF Len(key_bytes) < 32
    THEN key_bytes \o [i \in 1..(32 - Len(key_bytes)) |-> 48]
    ELSE IF Len(key_bytes) > 32 THEN SubSeq(key_bytes, 1, 32)
    ELSE key_bytes

\* Gateway EncryptionService.__init__: Fernet(urlsafe_b64encode(key32));
\* Fernet splits the decoded key into signing half and encryption half
Gateway_init(passphrase) ==
    LET key == B64Encode(NormalizeKey(Utf8Encode(passphrase)))
        raw == B64Decode(key)
    IN  [signing_key |-> SubSeq(raw, 1, 16), encryption_key |-> SubSeq(raw, 17, 32)]

\* (mutant) the Worker taking the first key half for AES
Worker_init_swapped(passphrase) ==
    LET padded_key == NormalizeKey(Utf8Encode(passphrase))
    IN  [signing_key |-> SubSeq(padded_key, 17, 32), encryption_key |-> SubSeq(padded_key, 1, 16)]

\* Worker EncryptionService.__init__
Worker_init(passphrase) ==
    LET padded_key == NormalizeKey(Utf8Encode(passphrase))
    IN  [signing_key |-> SubSeq(padded_key, 1, 16), encryption_key |-> SubSeq(padded_key, 17, 32)]

\* Fernet.encrypt: version | timestamp | IV | AES-128-CBC(PKCS7(data)) | HMAC
FernetEncrypt(cipher, data, ts, iv) ==
    LET body == <<FERNET_VERSION>> \o TimestampBytes(ts) \o iv
                    \o CbcEncrypt(cipher.encryption_key, iv, Pkcs7Pad(data))
    IN  B64Encode(body \o HmacTag(cipher.signing_key, body))

\* Fernet.decrypt (no ttl): InvalidToken on any malformed, unauthentic or
\* badly padded token; the tag is verified before the ciphertext is touched
FernetDecrypt(cipher, token) ==
    LET data == B64Decode(token)
    IN  IF data = B64Error THEN InvalidToken
        ELSE IF Len(data) < 1 + 8 + AES_BLOCK + HMAC_LEN THEN InvalidToken
        ELSE IF data[1] # FERNET_VERSION THEN InvalidToken
        ELSE LET body == SubSeq(data, 1, Len(data) - HMAC_LEN)
                 tag == SubSeq(data, Len(data) - HMAC_LEN + 1, Len(data))
                 iv == SubSeq(data, 10, 25)
                 ciphertext == SubSeq(data, 26, Len(data) - HMAC_LEN)
             IN  IF tag # HmacTag(cipher.signing_key, body) THEN InvalidToken
                 ELSE IF Len(ciphertext) % AES_BLOCK # 0 THEN InvalidToken
                 ELSE LET plain == Pkcs7Unpad(CbcDecrypt(cipher.encryption_key, iv, ciphertext))
                      IN  IF plain = PadError THEN InvalidToken ELSE plain

\* Gateway EncryptionService.encrypt
encrypt(passphrase, plain_text, ts, iv) ==
    FernetEncrypt(Gateway_init(passphrase), Utf8Encode(plain_text), ts, iv)

\* Gateway EncryptionService.decrypt: None when anything raises
decrypt(passphrase, encrypted_text) ==
    LET decrypted_bytes == FernetDecrypt(Gateway_init(passphrase), encrypted_text)
    IN  IF decrypted_bytes = InvalidToken THEN None
        ELSE IF Utf8Decode(decrypted_bytes) = DecodeError THEN None
        ELSE Utf8Decode(decrypted_bytes)

\* The Worker imports pycryptodome at start-up; the pipeline is modelled on
\* an installation where the import succeeded.
USE_PYCRYPTODOME == TRUE

\* Worker EncryptionService.decrypt: parses the token by offsets, decrypts
\* and unpads; every failure is a raised exception (Exception)
Worker_decrypt(passphrase, encrypted_data) ==
    IF ~USE_PYCRYPTODOME THEN Exception
    ELSE LET data == B64Decode(encrypted_data)
         IN  IF data = B64Error THEN Exception
             ELSE IF Len(data) < 1 THEN Exception
             ELSE LET iv == SubSeq(data, 10, IF Len(data) < 25 THEN Len(data) ELSE 25)
                      ciphertext_with_hmac == SubSeq(data, 26, Len(data))
                      ciphertext == SubSeq(ciphertext_with_hmac, 1,
                                           Len(ciphertext_with_hmac) - HMAC_LEN)
                  IN  IF Len(iv) # AES_BLOCK THEN Exception
                      ELSE IF Len(ciphertext) % AES_BLOCK # 0 THEN Exception
                      ELSE LET decrypted == Pkcs7Unpad(
                                   CbcDecrypt(Worker_init(passphrase).encryption_key, iv, ciphertext))
                           IN  IF decrypted = PadError THEN Exception
                               ELSE IF Utf8Decode(decrypted) = DecodeError THEN Exception
                               ELSE Utf8Decode(decrypted)

(***************************************************************************)
(* Bounds and input sets                                                   *)
(***************************************************************************)
MaxTime == 2          \* the clock runs 0..MaxTime minutes
MaxAccountId == 2     \* serial primary keys handed out by mt5_accounts
MaxCycles == 2        \* sync cycles started by the Workers

Str(n, c) == [i \in 1..n |-> c + ((i * 7) % 26)] \o <<>>

\* candidate values of settings.ENCRYPTION_KEY: shorter than, and longer
\* than, 32 bytes
KeyA == Str(5, 97)
KeyB == Str(40, 65)
Passphrases == {KeyA, KeyB}

Owners == {1, 2}
\* the owner whose requests the specifications enumerate
GatewayOwners == {1}
LoginOf(u) == IF u = 1 THEN <<49, 48, 48, 49>> ELSE <<49, 48, 48, 50>>
Pw1 == <<112, 119, 233>>
Pw2 == <<113>>
Server == "Broker-Demo"
IVs == {[i \in 1..AES_BLOCK |-> (11 * i) % 256] \o <<>>}
Times == 0..MaxTime

Passwords == {Pw1, Pw2}

\* encryption_service.encrypt / .decrypt as the routes call them: the
\* operators above over the keys, passwords, times and IVs of the pipeline,
\* tabulated once
EncryptTable ==
    {<<<<k, p, t, iv>>, encrypt(k, p, t, iv)>> :
        k \in Passphrases, p \in Passwords, t \in Times, iv \in IVs}
DecryptTable ==
    {<<<<k, e[2]>>, decrypt(k, e[2])>> : k \in Passphrases, e \in EncryptTable}
encryption_service_encrypt(k, p, t, iv) ==
    (CHOOSE e \in EncryptTable : e[1] = <<k, p, t, iv>>)[2]
encryption_service_decrypt(k, tok) ==
    (CHOOSE d \in DecryptTable : d[1] = <<k, tok>>)[2]

VARIABLES
    now,          \* wall clock, minutes
    gwKey,        \* Gateway settings.ENCRYPTION_KEY (also VPS_SECRET)
    accounts,     \* table mt5_accounts: a set of rows
    nextId,       \* next serial id of mt5_accounts
    req,          \* the HTTP request handled by the last step
    resp          \* the response to it

gwVars == <<now, gwKey, accounts, nextId, req, resp>>

\* requests to POST /api/mt5/account that have run their SELECT and not yet
\* committed, one slot per server thread
Handlers == {"h1", "h2"}
NoCall == [phase |-> "none"]

VARIABLES inflight

VARIABLES
    vault_passphrase,  \* Vault: the configured ENCRYPTION_KEY
    vault_secret,      \* Vault: the secret string handed to encrypt
    vault_token,       \* Vault: the token encrypt returned
    gateway_plain,     \* Vault: result of the Gateway's decrypt
    worker_plain,      \* Vault: result of the Worker's decrypt
    vault_issued       \* Vault: the token as encrypt returned it, and its key

vaultVars == <<vault_passphrase, vault_secret, vault_token, gateway_plain, worker_plain,
              vault_issued>>

Unset == <<-9>>
KeyC == Str(32, 48)
VaultPassphrases == Passphrases \cup {KeyC}
VaultIVs == IVs \cup {[i \in 1..AES_BLOCK |-> 255 - i] \o <<>>}
Secrets == {<<>>, Pw1, Pw2, Str(15, 97), Str(16, 97), Str(17, 97) \o <<233>>}

(***************************************************************************)
(* Scheduling Gateway (routes/mt5.py)                                      *)
(***************************************************************************)
VPS_SECRET == gwKey

NoReq == [op |-> "none"]
NoResp == [op |-> "none", status |-> 0, body |-> <<>>]

AccountOf(u) == {a \in accounts : a.user_id = u}
\* (mutant) a lookup by primary key that ignores the key
AccountById_any(i) == accounts

AccountById(i) == {a \in accounts : a.id = i}

\* MT5AccountResponse: the row without the encrypted password
MT5AccountResponse(a) ==
    [id |-> a.id, mt5_login |-> a.mt5_login, mt5_server |-> a.mt5_server,
     is_active |-> a.is_active, sync_interval_minutes |-> a.sync_interval_minutes,
     last_sync_at |-> a.last_sync_at, last_sync_status |-> a.last_sync_status,
     last_sync_message |-> a.last_sync_message]
\* (mutant) an update that never replaces the stored secret
create_or_update_mt5_account_keeps(u, data, iv) ==
    IF AccountOf(u) # {} THEN
        LET existing_account == CHOOSE a \in AccountOf(u) : TRUE
            updated == [existing_account EXCEPT
                !.mt5_login = data.mt5_login,
                !.mt5_server = data.mt5_server,
                !.sync_interval_minutes = data.sync_interval_minutes,
                !.is_active = data.is_active,
                !.last_sync_status = "pending",
                !.last_sync_message = "Credentials updated, waiting for sync"]
        IN  /\ accounts' = (accounts \ {existing_account}) \cup {updated}
            /\ resp' = [op |-> "account", status |-> 201, body |-> MT5AccountResponse(updated)]
            /\ UNCHANGED <<now, gwKey, nextId>>
    ELSE IF data.mt5_password = None \/ data.mt5_password = <<>> THEN
        /\ resp' = [op |-> "account", status |-> 400, body |-> <<>>]
        /\ UNCHANGED <<now, gwKey, accounts, nextId>>
    ELSE
        LET new_account ==
                [id |-> nextId, user_id |-> u,
                 mt5_login |-> data.mt5_login,
                 mt5_password_encrypted |-> encryption_service_encrypt(gwKey, data.mt5_password, now, iv),
                 mt5_server |-> data.mt5_server,
                 sync_interval_minutes |-> data.sync_interval_minutes,
                 is_active |-> TRUE,
                 last_sync_at |-> NoTime,
                 last_sync_status |-> "pending",
                 last_sync_message |-> "Account created, waiting for first sync",
                 last_trade_time |-> NoTime]
        IN  /\ nextId <= MaxAccountId
            /\ accounts' = accounts \cup {new_account}
            /\ nextId' = nextId + 1
            /\ resp' = [op |-> "account", status |-> 201, body |-> MT5AccountResponse(new_account)]
            /\ UNCHANGED <<now, gwKey>>

\* POST /api/mt5/account
create_or_update_mt5_account(u, data, iv) ==
    IF AccountOf(u) # {} THEN
        LET existing_account == CHOOSE a \in AccountOf(u) : TRUE
            updated == [existing_account EXCEPT
                !.mt5_login = data.mt5_login,
                !.mt5_server = data.mt5_server,
                !.sync_interval_minutes = data.sync_interval_minutes,
                !.is_active = data.is_active,
                !.mt5_password_encrypted =
                    IF data.mt5_password # None /\ data.mt5_password # <<>>
                    THEN encryption_service_encrypt(gwKey, data.mt5_password, now, iv) ELSE @,
                !.last_sync_status = "pending",
                !.last_sync_message = "Credentials updated, waiting for sync"]
        IN  /\ accounts' = (accounts \ {existing_account}) \cup {updated}
            /\ resp' = [op |-> "account", status |-> 201, body |-> MT5AccountResponse(updated)]
            /\ UNCHANGED <<now, gwKey, nextId>>
    ELSE IF data.mt5_password = None \/ data.mt5_password = <<>> THEN
        /\ resp' = [op |-> "account", status |-> 400, body |-> <<>>]
        /\ UNCHANGED <<now, gwKey, accounts, nextId>>
    ELSE
        LET new_account ==
                [id |-> nextId, user_id |-> u,
                 mt5_login |-> data.mt5_login,
                 mt5_password_encrypted |-> encryption_service_encrypt(gwKey, data.mt5_password, now, iv),
                 mt5_server |-> data.mt5_server,
                 sync_interval_minutes |-> data.sync_interval_minutes,
                 is_active |-> TRUE,
                 last_sync_at |-> NoTime,
                 last_sync_status |-> "pending",
                 last_sync_message |-> "Account created, waiting for first sync",
                 last_trade_time |-> NoTime]
        IN  /\ nextId <= MaxAccountId
            /\ accounts' = accounts \cup {new_account}
            /\ nextId' = nextId + 1
            /\ resp' = [op |-> "account", status |-> 201, body |-> MT5AccountResponse(new_account)]
            /\ UNCHANGED <<now, gwKey>>

\* DELETE /api/mt5/account
delete_mt5_account(u) ==
    IF AccountOf(u) = {} THEN
        /\ resp' = [op |-> "delete", status |-> 404, body |-> <<>>]
        /\ UNCHANGED <<now, gwKey, accounts, nextId>>
    ELSE
        /\ accounts' = accounts \ AccountOf(u)
        /\ resp' = [op |-> "delete", status |-> 204, body |-> <<>>]
        /\ UNCHANGED <<now, gwKey, nextId>>

\* POST /api/mt5/account/toggle
toggle_mt5_sync(u) ==
    IF AccountOf(u) = {} THEN
        /\ resp' = [op |-> "toggle", status |-> 404, body |-> <<>>]
        /\ UNCHANGED <<now, gwKey, accounts, nextId>>
    ELSE
        LET account == CHOOSE a \in AccountOf(u) : TRUE
            toggled == [account EXCEPT
                !.is_active = ~account.is_active,
                !.last_sync_message =
                    IF ~account.is_active THEN "Sync enabled" ELSE "Sync disabled by user"]
        IN  /\ accounts' = (accounts \ {account}) \cup {toggled}
            /\ resp' = [op |-> "toggle", status |-> 200, body |-> MT5AccountResponse(toggled)]
            /\ UNCHANGED <<now, gwKey, nextId>>

\* (mutant) the due test with a strict comparison
should_sync_strict(account, t) ==
    IF account.last_sync_at = NoTime THEN TRUE
    ELSE t > account.last_sync_at + account.sync_interval_minutes

\* the due test of get_accounts_for_vps_sync (lines 260-267)
should_sync(account, t) ==
    IF account.last_sync_at = NoTime THEN TRUE
    ELSE t >= account.last_sync_at + account.sync_interval_minutes

VPSSyncAccount(account, password) ==
    [id |-> account.id, user_id |-> account.user_id, mt5_login |-> account.mt5_login,
     mt5_password |-> password, mt5_server |-> account.mt5_server,
     sync_interval_minutes |-> account.sync_interval_minutes,
     last_sync_at |-> account.last_sync_at, last_trade_time |-> account.last_trade_time]

\* rows of a set in primary-key order
RECURSIVE ById(_)
ById(rows) ==
    IF rows = {} THEN <<>>
    ELSE LET first == CHOOSE a \in rows : \A b \in rows : a.id <= b.id
         IN  <<first>> \o ById(rows \ {first})

\* the result list built by the loop of get_accounts_for_vps_sync
RECURSIVE DueList(_, _, _)
DueList(rows, key, t) ==
    IF Len(rows) = 0 THEN <<>>
    ELSE LET account == rows[1]
             password == encryption_service_decrypt(key, account.mt5_password_encrypted)
         IN  (IF should_sync(account, t) /\ password # None /\ password # <<>>
              THEN <<VPSSyncAccount(account, password)>> ELSE <<>>)
                 \o DueList(Tail(rows), key, t)

\* GET /api/mt5/vps/accounts: the response for a presented secret
get_accounts_for_vps_sync(x_vps_secret) ==
    IF x_vps_secret # VPS_SECRET
    THEN [op |-> "vps_accounts", status |-> 401, body |-> <<>>]
    ELSE [op |-> "vps_accounts", status |-> 200,
          body |-> DueList(ById({a \in accounts : a.is_active = TRUE}), gwKey, now)]

\* (mutant) the status handler without the secret check
update_sync_status_from_vps_noauth(update, x_vps_secret) ==
    IF AccountById(update.account_id) = {}
    THEN [resp |-> [op |-> "vps_status", status |-> 404, body |-> <<>>], accounts |-> accounts]
    ELSE LET account == CHOOSE a \in AccountById(update.account_id) : TRUE
             updated == [account EXCEPT
                 !.last_sync_at = now,
                 !.last_sync_status = update.status,
                 !.last_sync_message = update.message,
                 !.last_trade_time =
                     IF update.last_trade_time # NoTime THEN update.last_trade_time ELSE @]
         IN  [resp |-> [op |-> "vps_status", status |-> 200, body |-> <<"updated">>],
              accounts |-> (accounts \ {account}) \cup {updated}]

\* POST /api/mt5/vps/status: the response and the table after the request
update_sync_status_from_vps(update, x_vps_secret) ==
    IF x_vps_secret # VPS_SECRET
    THEN [resp |-> [op |-> "vps_status", status |-> 401, body |-> <<>>], accounts |-> accounts]
    ELSE IF AccountById(update.account_id) = {}
    THEN [resp |-> [op |-> "vps_status", status |-> 404, body |-> <<>>], accounts |-> accounts]
    ELSE LET account == CHOOSE a \in AccountById(update.account_id) : TRUE
             updated == [account EXCEPT
                 !.last_sync_at = now,
                 !.last_sync_status = update.status,
                 !.last_sync_message = update.message,
                 !.last_trade_time =
                     IF update.last_trade_time # NoTime THEN update.last_trade_time ELSE @]
         IN  [resp |-> [op |-> "vps_status", status |-> 200, body |-> <<"updated">>],
              accounts |-> (accounts \ {account}) \cup {updated}]

(***************************************************************************)
(* Broker terminal, Ledger and Sync Worker state                           *)
(***************************************************************************)
Workers == {"w1", "w2"}

VARIABLES
    deals,          \* broker: deal history of all logins (TradeDeal tuples)
    positions,      \* broker: currently open positions (TradePosition tuples)
    trades,         \* Ledger: table trades, rows in insertion (id) order
    pc,             \* Worker: where each Worker process stands
    todo,           \* Worker: accounts of the current cycle not yet finished
    mt5_session,    \* Worker: login held in the Worker's terminal, or "none"
    fetched,        \* Worker: what the running sync_account got from the terminal
    queue,          \* Worker: trade_data dicts still to be passed to insert_trade
    trades_synced,  \* Worker: sync_account's counter
    last_trade_time,\* Worker: sync_account's local last_trade_time
    sync_result,    \* Worker: (success, message, trades_synced) of sync_account
    cycles,         \* Worker: run_sync_cycle calls so far
    previous        \* per Worker and owner: what the last successful run fetched

brokerVars == <<deals, positions>>
workerVars == <<pc, todo, mt5_session, fetched, queue, trades_synced,
                last_trade_time, sync_result, cycles, previous>>
pipeVars == <<brokerVars, trades, workerVars>>

vars == <<gwVars, vaultVars, pipeVars, inflight>>

NullNum == -1000000   \* Python's None in a numeric column

\* the two positions the broker can open, as the terminal reports them
Tickets == {42, 43}
TicketLogin(t) == LoginOf(1)
EntryDeal(t, at) ==
    IF t = 42
    THEN [login |-> TicketLogin(t), position_id |-> 42, symbol |-> "EURUSD", type |-> 0,
          entry |-> 0, time |-> at * 60, price |-> 100, volume |-> 1,
          profit |-> 0, commission |-> 0, swap |-> 0]
    ELSE [login |-> TicketLogin(t), position_id |-> t, symbol |-> "NQ", type |-> 1,
          entry |-> 0, time |-> at * 60, price |-> 200, volume |-> 2,
          profit |-> 0, commission |-> -2, swap |-> 0]
ExitDeal(t, at) ==
    IF t = 42
    THEN [login |-> TicketLogin(t), position_id |-> 42, symbol |-> "EURUSD", type |-> 1,
          entry |-> 1, time |-> at * 60, price |-> 110, volume |-> 1,
          profit |-> 500, commission |-> -5, swap |-> -1]
    ELSE [login |-> TicketLogin(t), position_id |-> t, symbol |-> "NQ", type |-> 0,
          entry |-> 1, time |-> at * 60, price |-> 190, volume |-> 2,
          profit |-> -30, commission |-> -2, swap |-> 0]
\* a deposit: a deal whose type is outside buy/sell
BalanceDeal(at) ==
    [login |-> LoginOf(1), position_id |-> 0, symbol |-> "", type |-> 2,
     entry |-> 0, time |-> at * 60, price |-> 0, volume |-> 0,
     profit |-> 1000, commission |-> 0, swap |-> 0]
OpenPosition(t, at) ==
    LET e == EntryDeal(t, at)
    IN  [login |-> e.login, ticket |-> t, symbol |-> e.symbol, type |-> e.type,
         volume |-> e.volume, price_open |-> e.price, price_current |-> e.price + 3,
         sl |-> 0, tp |-> IF t = 42 THEN 120 ELSE 0, time |-> e.time,
         profit |-> 150, swap |-> 0]
NoDeal ==
    [login |-> <<>>, position_id |-> -1, symbol |-> "", type |-> -1, entry |-> -1,
     time |-> 0, price |-> 0, volume |-> 0, profit |-> 0, commission |-> 0, swap |-> 0]

\* the password the broker holds for a login
BrokerPassword(login) == Pw1

\* the Worker's configured ENCRYPTION_KEY (the default both sides share)
ENCRYPTION_KEY == KeyA

\* datetime.fromtimestamp(seconds, tz=utc), in minutes
FromTimestamp(sec) == sec \div 60
\* a datetime as the terminal compares it with deal times (epoch seconds)
ToTimestamp(minute) == minute * 60
LOOKBACK_DAYS == 365

\* mt5.history_deals_get(from_date, to_date) in the session of `login`
history_deals_get(login, from_date, to_date) ==
    {d \in deals : /\ d.login = login
                   /\ ToTimestamp(from_date) <= d.time
                   /\ d.time <= ToTimestamp(to_date)}

\* mt5.positions_get() in the session of `login`
positions_get(login) == {q \in positions : q.login = login}

\* lines 282-295: deals grouped by position, balance operations skipped
GroupDeals(ds) ==
    LET tradeDeals == {d \in ds : ~(d.type > 1)}
    IN  [pos_id \in {d.position_id : d \in tradeDeals} |->
            [entry |-> IF \E d \in tradeDeals : d.position_id = pos_id /\ d.entry = 0
                       THEN CHOOSE d \in tradeDeals : d.position_id = pos_id /\ d.entry = 0
                       ELSE NoDeal,
             exit |-> IF \E d \in tradeDeals : d.position_id = pos_id /\ d.entry = 1
                      THEN CHOOSE d \in tradeDeals : d.position_id = pos_id /\ d.entry = 1
                      ELSE NoDeal]]

\* (mutant) a group counts as completed as soon as it has an entry
CompletedPositionsEntryOnly(grouped) ==
    {pos_id \in DOMAIN grouped : grouped[pos_id].entry # NoDeal}

\* line 299: if pos['entry'] and pos['exit']
CompletedPositions(grouped) ==
    {pos_id \in DOMAIN grouped :
        grouped[pos_id].entry # NoDeal /\ grouped[pos_id].exit # NoDeal}

\* lines 303-319: trade_data of a completed position
ClosedTradeData(pos_id, entry, exit) ==
    [ticket |-> pos_id,
     symbol |-> entry.symbol,
     trade_type |-> IF entry.type = 0 THEN "buy" ELSE "sell",
     volume |-> entry.volume,
     open_price |-> entry.price,
     close_price |-> exit.price,
     stop_loss |-> NullNum,
     take_profit |-> NullNum,
     open_time |-> FromTimestamp(entry.time),
     close_time |-> FromTimestamp(exit.time),
     profit |-> exit.profit,
     commission |-> entry.commission + exit.commission,
     swap |-> entry.swap + exit.swap,
     net_profit |-> exit.profit + entry.commission + exit.commission,
     is_closed |-> TRUE]

\* lines 332-348: trade_data of an open position
OpenTradeData(pos) ==
    [ticket |-> pos.ticket,
     symbol |-> pos.symbol,
     trade_type |-> IF pos.type = 0 THEN "buy" ELSE "sell",
     volume |-> pos.volume,
     open_price |-> pos.price_open,
     close_price |-> pos.price_current,
     stop_loss |-> IF pos.sl > 0 THEN pos.sl ELSE NullNum,
     take_profit |-> IF pos.tp > 0 THEN pos.tp ELSE NullNum,
     open_time |-> FromTimestamp(pos.time),
     close_time |-> NoTime,
     profit |-> pos.profit,
     commission |-> 0,
     swap |-> pos.swap,
     net_profit |-> pos.profit,
     is_closed |-> FALSE]

\* a set of trade_data dicts in the order the loops visit them
RECURSIVE ByTicket(_)
ByTicket(tds) ==
    IF tds = {} THEN <<>>
    ELSE LET first == CHOOSE a \in tds : \A b \in tds : a.ticket <= b.ticket
         IN  <<first>> \o ByTicket(tds \ {first})

\* (mutant) the SELECT only sees rows that are already closed
TradeExistsAmongClosed(user_id, trade_data) ==
    \E i \in 1..Len(trades) :
        /\ trades[i].user_id = user_id /\ trades[i].mt5_ticket = ToString(trade_data.ticket)
        /\ trades[i].is_closed

\* (mutant) the SELECT only sees rows that are still open
TradeExistsAmongOpen(user_id, trade_data) ==
    \E i \in 1..Len(trades) :
        /\ trades[i].user_id = user_id /\ trades[i].mt5_ticket = ToString(trade_data.ticket)
        /\ ~trades[i].is_closed

\* insert_trade, lines 190-195: the SELECT by (user_id, mt5_ticket)
TradeExists(user_id, trade_data) ==
    \E i \in 1..Len(trades) :
        trades[i].user_id = user_id /\ trades[i].mt5_ticket = ToString(trade_data.ticket)

\* insert_trade, lines 198-227: the inserted row
TradeRow(user_id, trade_data) ==
    [user_id |-> user_id,
     mt5_ticket |-> ToString(trade_data.ticket),
     trade_source |-> "mt5_auto",
     symbol |-> trade_data.symbol,
     trade_type |-> trade_data.trade_type,
     volume |-> trade_data.volume,
     open_price |-> trade_data.open_price,
     close_price |-> trade_data.close_price,
     stop_loss |-> trade_data.stop_loss,
     take_profit |-> trade_data.take_profit,
     open_time |-> trade_data.open_time,
     close_time |-> trade_data.close_time,
     profit |-> trade_data.profit,
     commission |-> trade_data.commission,
     swap |-> trade_data.swap,
     net_profit |-> trade_data.net_profit,
     is_closed |-> trade_data.is_closed]

\* line 356: f"Synced {trades_synced} new trades"
SyncedMessage(n) ==
    CASE n = 0 -> "Synced 0 new trades"
      [] n = 1 -> "Synced 1 new trades"
      [] n = 2 -> "Synced 2 new trades"
      [] OTHER -> "Synced N new trades"

\* the terminal session of a Worker: none, attached by mt5.initialize, or
\* logged in to an account
NoSession == <<>>
Initialized == <<0>>

NoFetch == [user_id |-> 0, deals |-> {}, positions |-> {}]
NoResult == [success |-> FALSE, message |-> "", trades_synced |-> 0]

WorkersIdle ==
    /\ pc = [w \in Workers |-> "idle"]
    /\ todo = [w \in Workers |-> <<>>]
    /\ mt5_session = [w \in Workers |-> NoSession]
    /\ fetched = [w \in Workers |-> NoFetch]
    /\ queue = [w \in Workers |-> <<>>]
    /\ trades_synced = [w \in Workers |-> 0]
    /\ last_trade_time = [w \in Workers |-> NoTime]
    /\ sync_result = [w \in Workers |-> NoResult]
    /\ cycles = 0
    /\ previous = NoFetch

PipeIdle ==
    /\ deals = {}
    /\ positions = {}
    /\ trades = <<>>
    /\ WorkersIdle

(***************************************************************************)
(* Broker events                                                           *)
(***************************************************************************)
B_Open(t) ==
    /\ ~\E d \in deals : d.position_id = t
    /\ deals' = deals \cup {EntryDeal(t, now)}
    /\ positions' = positions \cup {OpenPosition(t, now)}
    /\ UNCHANGED <<gwVars, vaultVars, inflight, trades, workerVars>>

B_Close(t) ==
    \E q \in positions :
        /\ q.ticket = t
        /\ deals' = deals \cup {ExitDeal(t, now)}
        /\ positions' = positions \ {q}
        /\ UNCHANGED <<gwVars, vaultVars, inflight, trades, workerVars>>

(***************************************************************************)
(* Sync Worker (vps/mt5_sync_service.py)                                   *)
(***************************************************************************)
\* mt5.initialize and mt5.login
initialize(session, w) == [session EXCEPT ![w] = Initialized]
login(session, w, account) == [session EXCEPT ![w] = account.mt5_login]

\* (mutant) a shutdown that leaves the session attached
shutdown_noop(session, w) == session

\* mt5.shutdown
shutdown(session, w) == [session EXCEPT ![w] = NoSession]

\* run_sync_cycle, lines 373-379, with get_accounts_to_sync
W_RunSyncCycle(w) ==
    /\ pc[w] = "idle"
    /\ cycles < MaxCycles
    /\ LET response == get_accounts_for_vps_sync(ENCRYPTION_KEY)
           accs == IF response.status = 200 THEN response.body ELSE <<>>
       IN  /\ req' = [op |-> "vps_accounts", x_vps_secret |-> ENCRYPTION_KEY]
           /\ resp' = response
           /\ todo' = [todo EXCEPT ![w] = accs]
           /\ pc' = [pc EXCEPT ![w] = IF Len(accs) = 0 THEN "idle" ELSE "connect"]
           /\ cycles' = cycles + 1
    /\ UNCHANGED <<now, gwKey, accounts, nextId, vaultVars, inflight, brokerVars, trades,
                   mt5_session, fetched, queue, trades_synced, last_trade_time,
                   sync_result, previous>>

\* sync_account, lines 239-261: initialize, login, account_info
W_Connect(w) ==
    /\ pc[w] = "connect"
    /\ LET account == Head(todo[w])
       IN  IF account.mt5_password = BrokerPassword(account.mt5_login)
           THEN /\ mt5_session' = login(initialize(mt5_session, w), w, account)
                /\ pc' = [pc EXCEPT ![w] = "history"]
                /\ UNCHANGED sync_result
           ELSE /\ mt5_session' = shutdown(initialize(mt5_session, w), w)
                /\ sync_result' = [sync_result EXCEPT ![w] =
                       [success |-> FALSE, message |-> "Login failed", trades_synced |-> 0]]
                /\ pc' = [pc EXCEPT ![w] = "report"]
    /\ UNCHANGED <<gwVars, vaultVars, inflight, brokerVars, trades, todo, fetched, queue,
                   trades_synced, last_trade_time, cycles, previous>>

\* sync_account, lines 263-299: fetch the history and group it.  The
\* watermark reaches the Worker as the ISO string of the JSON response; it is
\* taken here as the instant it denotes, which is the reading that lets the
\* terminal return deals and the comparison at lines 324-325 succeed.
W_History(w) ==
    /\ pc[w] = "history"
    /\ LET account == Head(todo[w])
           from_date == IF account.last_trade_time # NoTime
                        THEN account.last_trade_time
                        ELSE now - LOOKBACK_DAYS * 24 * 60
           ds == history_deals_get(mt5_session[w], from_date, now)
           grouped == GroupDeals(ds)
       IN  /\ fetched' = [fetched EXCEPT ![w] =
                  [user_id |-> account.user_id, deals |-> ds, positions |-> {}]]
           /\ queue' = [queue EXCEPT ![w] =
                  ByTicket({ClosedTradeData(p, grouped[p].entry, grouped[p].exit) :
                               p \in CompletedPositions(grouped)})]
           /\ trades_synced' = [trades_synced EXCEPT ![w] = 0]
           /\ last_trade_time' = [last_trade_time EXCEPT ![w] = account.last_trade_time]
           /\ pc' = [pc EXCEPT ![w] = "closed"]
    /\ UNCHANGED <<gwVars, vaultVars, inflight, brokerVars, trades, todo, mt5_session,
                   sync_result, cycles, previous>>

\* insert_trade, lines 190-195, for the next trade_data of either loop
\* (mutant) a trade that is found in the ledger is skipped but counted
W_Select_counting(w) ==
    /\ pc[w] \in {"closed", "open"}
    /\ Len(queue[w]) > 0
    /\ IF TradeExists(Head(todo[w]).user_id, Head(queue[w]))
       THEN /\ queue' = [queue EXCEPT ![w] = Tail(@)]
            /\ trades_synced' = [trades_synced EXCEPT ![w] = @ + 1]
            /\ UNCHANGED pc
       ELSE /\ pc' = [pc EXCEPT ![w] = IF pc[w] = "closed" THEN "closed_insert" ELSE "open_insert"]
            /\ UNCHANGED <<queue, trades_synced>>
    /\ UNCHANGED <<gwVars, vaultVars, inflight, brokerVars, trades, todo, mt5_session, fetched,
                   last_trade_time, sync_result, cycles, previous>>

W_Select(w) ==
    /\ pc[w] \in {"closed", "open"}
    /\ Len(queue[w]) > 0
    /\ IF TradeExists(Head(todo[w]).user_id, Head(queue[w]))
       THEN /\ queue' = [queue EXCEPT ![w] = Tail(@)]
            /\ UNCHANGED pc
       ELSE /\ pc' = [pc EXCEPT ![w] = IF pc[w] = "closed" THEN "closed_insert" ELSE "open_insert"]
            /\ UNCHANGED queue
    /\ UNCHANGED <<gwVars, vaultVars, inflight, brokerVars, trades, todo, mt5_session, fetched,
                   trades_synced, last_trade_time, sync_result, cycles, previous>>

\* insert_trade, lines 198-229, and the caller's counting (lines 321-325, 350-351)
W_Insert(w) ==
    /\ pc[w] \in {"closed_insert", "open_insert"}
    /\ LET trade_data == Head(queue[w])
       IN  /\ trades' = Append(trades, TradeRow(Head(todo[w]).user_id, trade_data))
           /\ trades_synced' = [trades_synced EXCEPT ![w] = @ + 1]
           /\ last_trade_time' = [last_trade_time EXCEPT ![w] =
                  IF pc[w] = "closed_insert" /\ (@ = NoTime \/ trade_data.close_time > @)
                  THEN trade_data.close_time ELSE @]
    /\ queue' = [queue EXCEPT ![w] = Tail(@)]
    /\ pc' = [pc EXCEPT ![w] = IF pc[w] = "closed_insert" THEN "closed" ELSE "open"]
    /\ UNCHANGED <<gwVars, vaultVars, inflight, brokerVars, todo, mt5_session, fetched,
                   sync_result, cycles, previous>>

\* sync_account, lines 327-348: the open positions
W_Positions(w) ==
    /\ pc[w] = "closed"
    /\ Len(queue[w]) = 0
    /\ LET ps == positions_get(mt5_session[w])
       IN  /\ fetched' = [fetched EXCEPT ![w].positions = ps]
           /\ queue' = [queue EXCEPT ![w] = ByTicket({OpenTradeData(q) : q \in ps})]
    /\ pc' = [pc EXCEPT ![w] = "open"]
    /\ UNCHANGED <<gwVars, vaultVars, inflight, brokerVars, trades, todo, mt5_session,
                   trades_synced, last_trade_time, sync_result, cycles, previous>>

\* sync_account, lines 353-359: shutdown and the result tuple
\* (mutant) a successful run that returns with its terminal still attached
W_Shutdown_detached(w) ==
    /\ pc[w] = "open"
    /\ Len(queue[w]) = 0
    /\ sync_result' = [sync_result EXCEPT ![w] =
           [success |-> TRUE, message |-> SyncedMessage(trades_synced[w]),
            trades_synced |-> trades_synced[w]]]
    /\ pc' = [pc EXCEPT ![w] = "report"]
    /\ UNCHANGED <<gwVars, vaultVars, inflight, brokerVars, trades, todo, mt5_session, fetched,
                   queue, trades_synced, last_trade_time, cycles, previous>>

W_Shutdown(w) ==
    /\ pc[w] = "open"
    /\ Len(queue[w]) = 0
    /\ mt5_session' = shutdown(mt5_session, w)
    /\ sync_result' = [sync_result EXCEPT ![w] =
           [success |-> TRUE, message |-> SyncedMessage(trades_synced[w]),
            trades_synced |-> trades_synced[w]]]
    /\ pc' = [pc EXCEPT ![w] = "report"]
    /\ UNCHANGED <<gwVars, vaultVars, inflight, brokerVars, trades, todo, fetched, queue,
                   trades_synced, last_trade_time, cycles, previous>>

\* run_sync_cycle, lines 387-392, with update_sync_status
\* (mutant) a report that says success whatever the run returned
StatusReport_success(w) ==
    [account_id |-> Head(todo[w]).id,
     status |-> "success",
     message |-> sync_result[w].message,
     last_trade_time |-> IF sync_result[w].trades_synced > 0 THEN now ELSE NoTime]

\* run_sync_cycle, lines 387-392: the arguments of update_sync_status
StatusReport(w) ==
    [account_id |-> Head(todo[w]).id,
     status |-> IF sync_result[w].success THEN "success" ELSE "error",
     message |-> sync_result[w].message,
     last_trade_time |-> IF sync_result[w].trades_synced > 0 THEN now ELSE NoTime]

W_Report(w) ==
    /\ pc[w] = "report"
    /\ LET update == StatusReport(w)
           r == update_sync_status_from_vps(update, ENCRYPTION_KEY)
       IN  /\ req' = [op |-> "vps_status", x_vps_secret |-> ENCRYPTION_KEY,
                      account_id |-> update.account_id, update |-> update]
           /\ resp' = r.resp
           /\ accounts' = r.accounts
           /\ previous' = IF sync_result[w].success THEN fetched[w] ELSE previous
    /\ todo' = [todo EXCEPT ![w] = Tail(@)]
    /\ pc' = [pc EXCEPT ![w] = IF Len(todo[w]) = 1 THEN "idle" ELSE "connect"]
    /\ fetched' = [fetched EXCEPT ![w] = NoFetch]
    /\ trades_synced' = [trades_synced EXCEPT ![w] = 0]
    /\ last_trade_time' = [last_trade_time EXCEPT ![w] = NoTime]
    /\ sync_result' = [sync_result EXCEPT ![w] = NoResult]
    /\ UNCHANGED <<now, gwKey, nextId, vaultVars, inflight, brokerVars, trades, mt5_session,
                   queue, cycles>>

WorkerStep(w) ==
    \/ W_RunSyncCycle(w)
    \/ W_Connect(w)
    \/ W_History(w)
    \/ W_Select(w)
    \/ W_Insert(w)
    \/ W_Positions(w)
    \/ W_Shutdown(w)
    \/ W_Report(w)

\* the registration the owner submits in the pipeline, with the broker's
\* password or a wrong one
Registration(u, password) ==
    [mt5_login |-> LoginOf(u), mt5_password |-> password,
     mt5_server |-> Server, sync_interval_minutes |-> 1, is_active |-> TRUE]

Register(u) ==
    \E password \in Passwords, iv \in IVs :
        /\ AccountOf(u) = {}
        /\ create_or_update_mt5_account(u, Registration(u, password), iv)
        /\ req' = [op |-> "account", user |-> u]
        /\ UNCHANGED <<vaultVars, inflight, pipeVars>>

O_Register == \E u \in GatewayOwners : Register(u)

\* a minute passes
Tick ==
    /\ now < MaxTime
    /\ now' = now + 1
    /\ req' = NoReq
    /\ resp' = NoResp
    /\ UNCHANGED <<gwKey, accounts, nextId>>
    /\ UNCHANGED <<vaultVars, inflight, pipeVars>>

Init ==
    /\ now = 0
    /\ gwKey = KeyA
    /\ accounts = {}
    /\ nextId = 1
    /\ req = NoReq
    /\ resp = NoResp
    /\ vault_passphrase = KeyA /\ vault_secret = <<>> /\ vault_token = Unset
    /\ gateway_plain = Unset /\ worker_plain = Unset /\ vault_issued = Unset
    /\ positions = {}
    /\ deals \in {{}, {BalanceDeal(0)}}
    /\ trades = <<>>
    /\ WorkersIdle
    /\ inflight = [h \in Handlers |-> NoCall]

Broker(tickets) == \E t \in tickets : B_Open(t) \/ B_Close(t)

\* the deployed pipeline: one Worker process, so every sync_account runs to
\* its end before the next one starts
Next == O_Register \/ Tick \/ Broker(Tickets) \/ WorkerStep("w1")

Spec == Init /\ [][Next]_vars

\* two Worker instances against one Gateway and one ledger, on an account
\* that trades a single position
RaceTickets == {42}

NextRace == O_Register \/ Tick \/ Broker(RaceTickets) \/ \E w \in Workers : WorkerStep(w)

SpecRace == Init /\ [][NextRace]_vars

(***************************************************************************)
(* Failures inside a cycle                                                 *)
(***************************************************************************)
Failed(message) == [success |-> FALSE, message |-> message, trades_synced |-> 0]

\* sync_account, lines 246-247: mt5.initialize fails, no session is attached
W_InitializeFails(w) ==
    /\ pc[w] = "connect"
    /\ sync_result' = [sync_result EXCEPT ![w] = Failed("MT5 initialization failed")]
    /\ pc' = [pc EXCEPT ![w] = "report"]
    /\ UNCHANGED <<gwVars, vaultVars, inflight, brokerVars, trades, todo, mt5_session, fetched,
                   queue, trades_synced, last_trade_time, cycles, previous>>

\* sync_account, lines 258-261: logged in, but account_info returns nothing
W_NoAccountInfo(w) ==
    /\ pc[w] = "connect"
    /\ Head(todo[w]).mt5_password = BrokerPassword(Head(todo[w]).mt5_login)
    /\ mt5_session' = shutdown(login(initialize(mt5_session, w), w, Head(todo[w])), w)
    /\ sync_result' = [sync_result EXCEPT ![w] = Failed("Could not get account info")]
    /\ pc' = [pc EXCEPT ![w] = "report"]
    /\ UNCHANGED <<gwVars, vaultVars, inflight, brokerVars, trades, todo, fetched, queue,
                   trades_synced, last_trade_time, cycles, previous>>

\* (mutant) an exception inside a run that ends the Worker process
W_Raise_fatal(w) ==
    /\ pc[w] \in {"history", "closed", "closed_insert", "open", "open_insert"}
    /\ pc' = [pc EXCEPT ![w] = "exited"]
    /\ UNCHANGED <<gwVars, vaultVars, inflight, brokerVars, trades, todo, mt5_session, fetched,
                   queue, trades_synced, last_trade_time, sync_result, cycles, previous>>

\* sync_account, lines 361-368: an exception raised while fetching,
\* reconciling or persisting is caught, the terminal is shut down and the
\* account's result is a failure
W_Raise(w) ==
    /\ pc[w] \in {"history", "closed", "closed_insert", "open", "open_insert"}
    /\ mt5_session' = shutdown(mt5_session, w)
    /\ sync_result' = [sync_result EXCEPT ![w] = Failed("Error")]
    /\ queue' = [queue EXCEPT ![w] = <<>>]
    /\ pc' = [pc EXCEPT ![w] = "report"]
    /\ UNCHANGED <<gwVars, vaultVars, inflight, brokerVars, trades, todo, fetched,
                   trades_synced, last_trade_time, cycles, previous>>

\* (mutant) a failed status report that ends the cycle
W_ReportFails_propagates(w) ==
    /\ pc[w] = "report"
    /\ todo' = [todo EXCEPT ![w] = <<>>]
    /\ pc' = [pc EXCEPT ![w] = "idle"]
    /\ fetched' = [fetched EXCEPT ![w] = NoFetch]
    /\ trades_synced' = [trades_synced EXCEPT ![w] = 0]
    /\ last_trade_time' = [last_trade_time EXCEPT ![w] = NoTime]
    /\ sync_result' = [sync_result EXCEPT ![w] = NoResult]
    /\ UNCHANGED <<gwVars, vaultVars, inflight, brokerVars, trades, mt5_session, queue,
                   cycles, previous>>

\* update_sync_status, lines 165-183, when the POST fails or is not answered
\* 200: the failure is logged and run_sync_cycle goes on
W_ReportFails(w) ==
    /\ pc[w] = "report"
    /\ req' = [op |-> "vps_status", x_vps_secret |-> ENCRYPTION_KEY,
               account_id |-> StatusReport(w).account_id, update |-> StatusReport(w)]
    /\ resp' = NoResp
    /\ todo' = [todo EXCEPT ![w] = Tail(@)]
    /\ pc' = [pc EXCEPT ![w] = IF Len(todo[w]) = 1 THEN "idle" ELSE "connect"]
    /\ fetched' = [fetched EXCEPT ![w] = NoFetch]
    /\ trades_synced' = [trades_synced EXCEPT ![w] = 0]
    /\ last_trade_time' = [last_trade_time EXCEPT ![w] = NoTime]
    /\ sync_result' = [sync_result EXCEPT ![w] = NoResult]
    /\ UNCHANGED <<now, gwKey, accounts, nextId, vaultVars, inflight, brokerVars, trades,
                   mt5_session, queue, cycles, previous>>

WorkerFault(w) ==
    \/ W_InitializeFails(w)
    \/ W_NoAccountInfo(w)
    \/ W_Raise(w)
    \/ W_ReportFails(w)

\* one Worker serving the accounts of both owners, with failures; the cycles
\* are taken at one instant, a lost report leaves its account due again
NextFaults ==
    \/ \E u \in Owners : Register(u)
    \/ Broker(RaceTickets)
    \/ WorkerStep("w1")
    \/ WorkerFault("w1")

SpecFaults == Init /\ [][NextFaults]_vars


(***************************************************************************)
(* The open-positions feed between cycles                                  *)
(***************************************************************************)
\* the market moves: the live price and the floating profit of an open
\* position change
B_Quote(t) ==
    \E q \in positions :
        /\ q.ticket = t
        /\ q.price_current = q.price_open + 3
        /\ positions' = (positions \ {q}) \cup
                            {[q EXCEPT !.price_current = q.price_open + 5, !.profit = 250]}
        /\ UNCHANGED <<gwVars, vaultVars, inflight, deals, trades, workerVars>>

\* the exit deal is booked in history while the open-positions feed still
\* lists the ticket
B_CloseLagging(t) ==
    /\ \E q \in positions : q.ticket = t
    /\ ~\E d \in deals : d.position_id = t /\ d.entry = 1
    /\ deals' = deals \cup {ExitDeal(t, now)}
    /\ UNCHANGED <<gwVars, vaultVars, inflight, positions, trades, workerVars>>

\* the feed drops a ticket whose exit deal is in history
B_Settle(t) ==
    \E q \in positions :
        /\ q.ticket = t
        /\ \E d \in deals : d.position_id = t /\ d.entry = 1
        /\ positions' = positions \ {q}
        /\ UNCHANGED <<gwVars, vaultVars, inflight, deals, trades, workerVars>>

Feed(tickets) ==
    \E t \in tickets : B_Open(t) \/ B_Quote(t) \/ B_CloseLagging(t) \/ B_Settle(t)

\* one Worker, one owner, one ticket whose quotes move and whose close
\* reaches history before the feed
NextFeed ==
    \/ O_Register
    \/ Tick
    \/ Feed(RaceTickets)
    \/ WorkerStep("w1")

SpecFeed == Init /\ [][NextFeed]_vars

(***************************************************************************)
(* A batch with one bad ticket                                             *)
(***************************************************************************)
\* sync_account, lines 298-351 with 361-368: building or inserting the trade
\* of the ticket at hand raises; the loops over the completed positions and
\* over the open positions have no handler of their own, so the exception
\* reaches the handler of sync_account
W_Anomaly(w) ==
    /\ Len(queue[w]) > 0
    /\ W_Raise(w)

\* one Worker, one owner, two tickets in one batch
NextBatch ==
    \/ O_Register
    \/ Broker(Tickets)
    \/ WorkerStep("w1")
    \/ W_Anomaly("w1")

SpecBatch == Init /\ [][NextBatch]_vars

(***************************************************************************)
(* The Worker loop                                                         *)
(***************************************************************************)
\* get_accounts_to_sync, lines 133-160: the Gateway is unreachable or does
\* not answer 200; the failure is logged, the due list is empty and the
\* cycle ends
W_GatewayUnreachable(w) ==
    /\ pc[w] = "idle"
    /\ cycles < MaxCycles
    /\ cycles' = cycles + 1
    /\ UNCHANGED <<gwVars, vaultVars, inflight, brokerVars, trades, pc, todo, mt5_session,
                   fetched, queue, trades_synced, last_trade_time, sync_result, previous>>

NextLoop ==
    \/ NextFaults
    \/ W_GatewayUnreachable("w1")

\* main, lines 419-428: the process keeps executing the loop, so the Worker
\* always takes its next step, be it a regular one or a failure
LoopRuns == WF_vars(WorkerStep("w1") \/ WorkerFault("w1") \/ W_GatewayUnreachable("w1"))

SpecLoop == Init /\ [][NextLoop]_vars /\ LoopRuns

(***************************************************************************)
(* Cancellation of the Worker process                                      *)
(***************************************************************************)
\* an interrupt of the process: KeyboardInterrupt is not an Exception, so
\* neither the handler of sync_account (361), nor the one of run_sync_cycle
\* (397), nor the one of main (423) catches it, and no signal handler or
\* finally clause is installed; the process exits where it stands
W_Cancel(w) ==
    /\ pc[w] # "exited"
    /\ pc' = [pc EXCEPT ![w] = "exited"]
    /\ UNCHANGED <<gwVars, vaultVars, inflight, brokerVars, trades, todo, mt5_session, fetched,
                   queue, trades_synced, last_trade_time, sync_result, cycles, previous>>

NextCancel ==
    \/ NextFaults
    \/ W_Cancel("w1")

SpecCancel == Init /\ [][NextCancel]_vars

(***************************************************************************)
(* Gateway requests by an arbitrary client                                 *)
(***************************************************************************)

AccountInputs ==
    [mt5_login : {LoginOf(1)}, mt5_password : {None, Pw1}, mt5_server : {Server},
     sync_interval_minutes : {1, 2}, is_active : BOOLEAN]

\* VPSSyncStatusUpdate: status is an unconstrained str
StatusInputs ==
    [account_id : 1..MaxAccountId, status : {"success", "error", "partial"},
     message : {"msg"}, last_trade_time : {NoTime} \cup Times]

Gw_CreateOrUpdate ==
    \E u \in GatewayOwners, data \in AccountInputs, iv \in IVs :
        /\ create_or_update_mt5_account(u, data, iv)
        /\ req' = [op |-> "account", user |-> u]
        /\ UNCHANGED <<vaultVars, inflight, pipeVars>>

Gw_Delete ==
    \E u \in GatewayOwners :
        /\ delete_mt5_account(u)
        /\ req' = [op |-> "delete", user |-> u]
        /\ UNCHANGED <<vaultVars, inflight, pipeVars>>

Gw_Toggle ==
    \E u \in GatewayOwners :
        /\ toggle_mt5_sync(u)
        /\ req' = [op |-> "toggle", user |-> u]
        /\ UNCHANGED <<vaultVars, inflight, pipeVars>>

Gw_VpsAccounts ==
    \E x_vps_secret \in Passphrases :
        /\ resp' = get_accounts_for_vps_sync(x_vps_secret)
        /\ req' = [op |-> "vps_accounts", x_vps_secret |-> x_vps_secret]
        /\ UNCHANGED <<now, gwKey, accounts, nextId>>
        /\ UNCHANGED <<vaultVars, inflight, pipeVars>>

\* (mutant) a status report that leaves last_sync_at as it was
Gw_VpsStatus_stale ==
    \E x_vps_secret \in Passphrases, update \in StatusInputs :
        LET r == update_sync_status_from_vps(update, x_vps_secret)
        IN  /\ resp' = r.resp
            /\ accounts' = {[b EXCEPT !.last_sync_at =
                                 (CHOOSE c \in accounts : c.id = b.id).last_sync_at] :
                               b \in r.accounts}
            /\ req' = [op |-> "vps_status", x_vps_secret |-> x_vps_secret,
                       account_id |-> update.account_id]
            /\ UNCHANGED <<now, gwKey, nextId>>
            /\ UNCHANGED <<vaultVars, inflight, pipeVars>>

Gw_VpsStatus ==
    \E x_vps_secret \in Passphrases, update \in StatusInputs :
        LET r == update_sync_status_from_vps(update, x_vps_secret)
        IN  /\ resp' = r.resp
            /\ accounts' = r.accounts
            /\ req' = [op |-> "vps_status", x_vps_secret |-> x_vps_secret,
                       account_id |-> update.account_id]
            /\ UNCHANGED <<now, gwKey, nextId>>
            /\ UNCHANGED <<vaultVars, inflight, pipeVars>>

\* the Gateway process is restarted with another ENCRYPTION_KEY in its
\* environment (config.py Settings); stored rows are not re-encrypted
RestartGateway ==
    \E k \in Passphrases :
        /\ k # gwKey
        /\ gwKey' = k
        /\ req' = NoReq
        /\ resp' = NoResp
        /\ UNCHANGED <<now, accounts, nextId>>
        /\ UNCHANGED <<vaultVars, inflight, pipeVars>>

VaultIdle ==
    /\ vault_passphrase = KeyA /\ vault_secret = <<>> /\ vault_token = Unset
    /\ gateway_plain = Unset /\ worker_plain = Unset /\ vault_issued = Unset

InitGateway ==
    /\ now = 0
    /\ gwKey = KeyA
    /\ accounts = {}
    /\ nextId = 1
    /\ req = NoReq
    /\ resp = NoResp
    /\ VaultIdle
    /\ PipeIdle
    /\ inflight = [h \in Handlers |-> NoCall]

NextGateway ==
    \/ Gw_CreateOrUpdate
    \/ Gw_Delete
    \/ Gw_Toggle
    \/ Gw_VpsAccounts
    \/ Gw_VpsStatus
    \/ Tick
    \/ RestartGateway

SpecGateway == InitGateway /\ [][NextGateway]_vars

(***************************************************************************)
(* Credential rotation by the owner                                        *)
(***************************************************************************)
\* bodies of POST /api/mt5/account: the password omitted, empty, or one of
\* two passwords
RotateInputs ==
    [mt5_login : {LoginOf(1)}, mt5_password : {None, <<>>} \cup Passwords,
     mt5_server : {Server}, sync_interval_minutes : {1}, is_active : {TRUE}]

Gw_Rotate ==
    \E u \in GatewayOwners, data \in RotateInputs, iv \in IVs :
        /\ create_or_update_mt5_account(u, data, iv)
        /\ req' = [op |-> "account", user |-> u, data |-> data]
        /\ UNCHANGED <<vaultVars, inflight, pipeVars>>

\* the owner's requests, interleaved with status reports and the clock
NextRotate ==
    \/ Gw_Rotate
    \/ Gw_VpsStatus
    \/ Tick

SpecRotate == InitGateway /\ [][NextRotate]_vars

(***************************************************************************)
(* Owner requests served concurrently (routes/mt5.py, table mt5_accounts)  *)
(***************************************************************************)
\* (mutant) the table without its unique index
ix_mt5_accounts_user_id_dropped(rows, u) == TRUE

\* unique index ix_mt5_accounts_user_id: may a row of owner u be inserted
ix_mt5_accounts_user_id(rows, u) == ~\E a \in rows : a.user_id = u

CreateInputs(u) ==
    [mt5_login : {LoginOf(u)}, mt5_password : {None, Pw1}, mt5_server : {Server},
     sync_interval_minutes : {1}, is_active : BOOLEAN]

\* create_or_update_mt5_account, lines 71-73 and 93-98: the SELECT of the
\* owner's row, and the 400 for a create without a password
A_Select(h) ==
    /\ inflight[h] = NoCall
    /\ \E u \in Owners : \E data \in CreateInputs(u) :
          LET existing_id == IF AccountOf(u) = {} THEN 0
                             ELSE (CHOOSE a \in AccountOf(u) : TRUE).id
          IN  /\ req' = [op |-> "account", user |-> u]
              /\ IF existing_id = 0 /\ data.mt5_password = None
                 THEN /\ resp' = [op |-> "account", status |-> 400, body |-> <<>>]
                      /\ UNCHANGED inflight
                 ELSE /\ inflight' = [inflight EXCEPT ![h] =
                             [phase |-> "selected", user |-> u, data |-> data,
                              existing_id |-> existing_id]]
                      /\ UNCHANGED resp
    /\ UNCHANGED <<now, gwKey, accounts, nextId, vaultVars, pipeVars>>

\* create_or_update_mt5_account, lines 75-91 and 100-116: the UPDATE of the
\* row selected, or the INSERT, and the commit; a commit the database
\* refuses is answered 500
A_Commit(h) ==
    /\ inflight[h] # NoCall
    /\ LET u == inflight[h].user
           data == inflight[h].data
           failed == /\ resp' = [op |-> "account", status |-> 500, body |-> <<>>]
                     /\ UNCHANGED <<accounts, nextId>>
       IN  /\ req' = [op |-> "account", user |-> u]
           /\ IF inflight[h].existing_id # 0
              THEN IF AccountById(inflight[h].existing_id) = {}
                   THEN failed
                   ELSE LET existing_account ==
                                CHOOSE a \in AccountById(inflight[h].existing_id) : TRUE
                            updated == [existing_account EXCEPT
                                !.mt5_login = data.mt5_login,
                                !.mt5_server = data.mt5_server,
                                !.sync_interval_minutes = data.sync_interval_minutes,
                                !.is_active = data.is_active,
                                !.mt5_password_encrypted =
                                    IF data.mt5_password # None
                                    THEN encryption_service_encrypt(gwKey, data.mt5_password, now,
                                                                    CHOOSE iv \in IVs : TRUE)
                                    ELSE @,
                                !.last_sync_status = "pending",
                                !.last_sync_message = "Credentials updated, waiting for sync"]
                        IN  /\ accounts' = (accounts \ {existing_account}) \cup {updated}
                            /\ resp' = [op |-> "account", status |-> 201,
                                        body |-> MT5AccountResponse(updated)]
                            /\ UNCHANGED nextId
              ELSE IF ~ix_mt5_accounts_user_id(accounts, u)
                   THEN failed
                   ELSE LET new_account ==
                                [id |-> nextId, user_id |-> u,
                                 mt5_login |-> data.mt5_login,
                                 mt5_password_encrypted |->
                                     encryption_service_encrypt(gwKey, data.mt5_password, now,
                                                                CHOOSE iv \in IVs : TRUE),
                                 mt5_server |-> data.mt5_server,
                                 sync_interval_minutes |-> data.sync_interval_minutes,
                                 is_active |-> TRUE,
                                 last_sync_at |-> NoTime,
                                 last_sync_status |-> "pending",
                                 last_sync_message |-> "Account created, waiting for first sync",
                                 last_trade_time |-> NoTime]
                        IN  /\ nextId <= MaxAccountId
                            /\ accounts' = accounts \cup {new_account}
                            /\ nextId' = nextId + 1
                            /\ resp' = [op |-> "account", status |-> 201,
                                        body |-> MT5AccountResponse(new_account)]
    /\ inflight' = [inflight EXCEPT ![h] = NoCall]
    /\ UNCHANGED <<now, gwKey, vaultVars, pipeVars>>

A_Toggle ==
    \E u \in Owners :
        /\ toggle_mt5_sync(u)
        /\ req' = [op |-> "toggle", user |-> u]
        /\ UNCHANGED <<vaultVars, inflight, pipeVars>>

A_Delete ==
    \E u \in Owners :
        /\ delete_mt5_account(u)
        /\ req' = [op |-> "delete", user |-> u]
        /\ UNCHANGED <<vaultVars, inflight, pipeVars>>

NextAccounts == A_Toggle \/ A_Delete \/ \E h \in Handlers : A_Select(h) \/ A_Commit(h)

SpecAccounts == InitGateway /\ [][NextAccounts]_vars

V_Encrypt ==
    /\ vault_token = Unset
    /\ \E ts \in Times, iv \in VaultIVs : vault_token' = encrypt(vault_passphrase, vault_secret, ts, iv)
    /\ vault_issued' = <<vault_token', vault_passphrase>>
    /\ UNCHANGED <<vault_passphrase, vault_secret, gateway_plain, worker_plain>>
    /\ UNCHANGED <<gwVars, inflight, pipeVars>>

V_Decrypt ==
    /\ vault_token # Unset
    /\ gateway_plain = Unset
    /\ gateway_plain' = decrypt(vault_passphrase, vault_token)
    /\ UNCHANGED <<vault_passphrase, vault_secret, vault_token, worker_plain, vault_issued>>
    /\ UNCHANGED <<gwVars, inflight, pipeVars>>

V_WorkerDecrypt ==
    /\ vault_token # Unset
    /\ worker_plain = Unset
    /\ worker_plain' = Worker_decrypt(vault_passphrase, vault_token)
    /\ UNCHANGED <<vault_passphrase, vault_secret, vault_token, gateway_plain, vault_issued>>
    /\ UNCHANGED <<gwVars, inflight, pipeVars>>

InitVault ==
    /\ vault_passphrase \in VaultPassphrases
    /\ vault_secret \in Secrets
    /\ vault_token = Unset
    /\ gateway_plain = Unset
    /\ worker_plain = Unset
    /\ vault_issued = Unset
    /\ now = 0 /\ gwKey = KeyA /\ accounts = {} /\ nextId = 1 /\ req = NoReq /\ resp = NoResp
    /\ PipeIdle
    /\ inflight = [h \in Handlers |-> NoCall]

NextVault == V_Encrypt \/ V_Decrypt \/ V_WorkerDecrypt

SpecVault == InitVault /\ [][NextVault]_vars

\* C10: what the Gateway's decrypt and the Worker's decrypt return for a
\* token the Gateway's encrypt produced under the same passphrase is the
\* secret that was encrypted.
C10_RoundTrip ==
    /\ gateway_plain # Unset => gateway_plain = vault_secret
    /\ worker_plain # Unset => worker_plain = vault_secret

C10_Witness ==
    /\ gateway_plain # Unset /\ worker_plain # Unset
    /\ Len(vault_secret) > AES_BLOCK
    /\ \E i \in 1..Len(vault_secret) : vault_secret[i] > 127

(***************************************************************************)
(* Vault operations on tokens that do not verify                           *)
(***************************************************************************)
TamperSecrets == {Pw1, Str(16, 97)}
FlipMasks == {1, 128}

\* the token with one bit of one of its bytes inverted
FlipBit(token, i, mask) ==
    LET data == B64Decode(token)
    IN  B64Encode([data EXCEPT ![i] = Xor(@, mask)])

\* the stored token is altered in one bit before it is decrypted
V_FlipBit ==
    /\ vault_issued # Unset
    /\ vault_token = vault_issued[1] /\ vault_passphrase = vault_issued[2]
    /\ gateway_plain = Unset /\ worker_plain = Unset
    /\ \E i \in 1..Len(B64Decode(vault_token)), mask \in FlipMasks :
          vault_token' = FlipBit(vault_token, i, mask)
    /\ UNCHANGED <<vault_passphrase, vault_secret, gateway_plain, worker_plain, vault_issued>>
    /\ UNCHANGED <<gwVars, inflight, pipeVars>>

\* the service is started with another ENCRYPTION_KEY than the token's
V_Rekey ==
    /\ vault_issued # Unset
    /\ vault_token = vault_issued[1] /\ vault_passphrase = vault_issued[2]
    /\ gateway_plain = Unset /\ worker_plain = Unset
    /\ \E k \in VaultPassphrases \ {vault_passphrase} : vault_passphrase' = k
    /\ UNCHANGED <<vault_secret, vault_token, gateway_plain, worker_plain, vault_issued>>
    /\ UNCHANGED <<gwVars, inflight, pipeVars>>

InitTamper ==
    /\ vault_passphrase \in VaultPassphrases
    /\ vault_secret \in TamperSecrets
    /\ vault_token = Unset
    /\ gateway_plain = Unset
    /\ worker_plain = Unset
    /\ vault_issued = Unset
    /\ now = 0 /\ gwKey = KeyA /\ accounts = {} /\ nextId = 1 /\ req = NoReq /\ resp = NoResp
    /\ PipeIdle
    /\ inflight = [h \in Handlers |-> NoCall]

NextTamper == V_Encrypt \/ V_FlipBit \/ V_Rekey \/ V_Decrypt \/ V_WorkerDecrypt

SpecTamper == InitTamper /\ [][NextTamper]_vars

\* the token at hand is not the issued one, or the key is not the one it
\* was issued under
Unverifiable ==
    /\ vault_issued # Unset
    /\ vault_token # vault_issued[1] \/ vault_passphrase # vault_issued[2]

\* C11 (as claimed): for a token that does not verify, the Gateway's decrypt
\* and the Worker's decrypt both return the failure value: neither returns a
\* plaintext and neither raises.
C11_UnverifiableTokenFails ==
    Unverifiable =>
        /\ gateway_plain \in {Unset, None}
        /\ worker_plain \in {Unset, None}


(***************************************************************************)
(* Gateway claims                                                          *)
(***************************************************************************)
Returned(a) == \E i \in 1..Len(resp.body) : resp.body[i].id = a.id
Due(a) == a.last_sync_at = NoTime \/ now >= a.last_sync_at + a.sync_interval_minutes
Listed == req.op = "vps_accounts" /\ req.x_vps_secret = gwKey /\ resp.status = 200

\* C1 (as claimed): an authenticated GET /api/mt5/vps/accounts returns an
\* account if and only if it is active and due.
C1_DueIffReturned ==
    Listed => \A a \in accounts : Returned(a) <=> (a.is_active /\ Due(a))

\* C1 (amended): an authenticated GET /api/mt5/vps/accounts returns an
\* account if and only if it is active, due, and its stored secret decrypts
\* under the currently configured key to a non-empty password; the entry
\* carries that password.
C1_DueAndDecryptableIffReturned ==
    Listed =>
        /\ \A a \in accounts :
              Returned(a) <=>
                  /\ a.is_active
                  /\ Due(a)
                  /\ decrypt(gwKey, a.mt5_password_encrypted) \notin {None, <<>>}
        /\ \A i \in 1..Len(resp.body) : \E a \in accounts :
              /\ a.id = resp.body[i].id
              /\ resp.body[i].mt5_password = decrypt(gwKey, a.mt5_password_encrypted)

C1_Witness ==
    /\ Listed
    /\ \E a \in accounts : Returned(a) /\ a.last_sync_at # NoTime

\* C8: a pull or push presenting a secret other than the configured one is
\* answered 401 with an empty body and leaves the account table as it was.
C8_WrongSecretRejected ==
    [][(req'.op \in {"vps_accounts", "vps_status"} /\ req'.x_vps_secret # gwKey')
          => (resp'.status = 401 /\ resp'.body = <<>> /\ accounts' = accounts)]_vars

C8_Witness ==
    /\ req.op = "vps_status" /\ req.x_vps_secret # gwKey
    /\ AccountById(req.account_id) # {}
    /\ resp.status = 401

\* C9 (as claimed): the stored watermark of an account never decreases.
C9_WatermarkNeverDecreases ==
    [][\A a \in accounts, b \in accounts' :
          a.id = b.id => b.last_trade_time >= a.last_trade_time]_vars

\* C12 (as claimed): a pull that meets an active, due account whose stored
\* secret does not decrypt leaves that account with sync status error.
C12_UndecryptableSurfaced ==
    [][(req'.op = "vps_accounts" /\ resp'.status = 200)
          => \A a \in accounts :
                (/\ a.is_active
                 /\ Due(a)
                 /\ decrypt(gwKey, a.mt5_password_encrypted) = None)
                    => \E b \in accounts' : b.id = a.id /\ b.last_sync_status = "error"]_vars


\* C14 (as claimed): the stored last-sync status of every account is one of
\* pending, success and error.
C14_StatusDomain ==
    \A a \in accounts : a.last_sync_status \in {"pending", "success", "error"}


(***************************************************************************)
(* Claims about the pipeline                                               *)
(***************************************************************************)
RowsOf(user_id, t) ==
    {i \in 1..Len(trades) : trades[i].user_id = user_id /\ trades[i].mt5_ticket = ToString(t)}
HasEntry(ds, t) == \E d \in ds : d.type <= 1 /\ d.position_id = t /\ d.entry = 0
HasExit(ds, t) == \E d \in ds : d.type <= 1 /\ d.position_id = t /\ d.entry = 1
\* the Worker has finished sync_account successfully and is about to report
RunDone(w) == pc[w] = "report" /\ sync_result[w].success

\* C2 (as claimed): the ledger never holds two rows for one (owner, ticket)
\* pair, also when two Workers interleave their select-then-insert steps.
C2_OneRowPerOwnerTicket ==
    \A i \in 1..Len(trades), j \in 1..Len(trades) :
        (trades[i].user_id = trades[j].user_id /\ trades[i].mt5_ticket = trades[j].mt5_ticket)
            => i = j

\* C3: a successful run of sync_account that saw the same deals and the same
\* open positions as the run before it inserted no row.
C3_SecondRunInsertsNothing ==
    \A w \in Workers :
        (RunDone(w) /\ fetched[w] = previous)
            => (sync_result[w].trades_synced = 0 /\ trades_synced[w] = 0)

C3_Witness ==
    /\ RunDone("w1")
    /\ fetched["w1"] = previous
    /\ HasEntry(fetched["w1"].deals, 42) /\ HasExit(fetched["w1"].deals, 42)
    /\ fetched["w1"].positions # {}
    /\ Len(trades) = 2

\* C4 (as claimed): after a successful run every position seen with entry and
\* exit has exactly one closed ledger row, with the exit's profit, the summed
\* commission and swap, and net = profit + commission + swap.
C4_EntryExitYieldsOneClosedTrade ==
    \A w \in Workers :
        RunDone(w) =>
            \A p \in CompletedPositions(GroupDeals(fetched[w].deals)) :
                LET g == GroupDeals(fetched[w].deals)[p]
                    closed == {i \in RowsOf(fetched[w].user_id, p) : trades[i].is_closed}
                IN  /\ Cardinality(closed) = 1
                    /\ \A i \in closed :
                          /\ trades[i].profit = g.exit.profit
                          /\ trades[i].commission = g.entry.commission + g.exit.commission
                          /\ trades[i].swap = g.entry.swap + g.exit.swap
                          /\ trades[i].net_profit =
                                 trades[i].profit + trades[i].commission + trades[i].swap

\* C5: a row inserted for a ticket whose fetched history holds an entry deal
\* and no exit deal is never a closed row.
C5_EntryOnlyNeverClosed ==
    [][\A w \in Workers :
          (pc[w] \in {"closed_insert", "open_insert"} /\ Len(trades') = Len(trades) + 1)
              => LET row == trades'[Len(trades')]
                 IN  (\E t \in Tickets : /\ row.mt5_ticket = ToString(t)
                                         /\ HasEntry(fetched[w].deals, t)
                                         /\ ~HasExit(fetched[w].deals, t))
                         => ~row.is_closed]_vars

C5_Witness ==
    /\ RunDone("w1")
    /\ \E t \in Tickets :
          /\ HasEntry(fetched["w1"].deals, t) /\ ~HasExit(fetched["w1"].deals, t)
          /\ RowsOf(fetched["w1"].user_id, t) # {}
          /\ \A i \in RowsOf(fetched["w1"].user_id, t) : ~trades[i].is_closed
    /\ sync_result["w1"].trades_synced > 0

\* C6 (as claimed): on an empty ledger, a run that sees exactly the entry and
\* the exit deal of position 42 and no open position leaves the single row
\* {42, buy, 100, 110, net 494, closed} and reports success with one trade.
C6_EndToEndScenario ==
    (/\ pc["w1"] = "report"
     /\ \E t0 \in Times, t1 \in Times :
           fetched["w1"].deals = {EntryDeal(42, t0), ExitDeal(42, t1)}
     /\ fetched["w1"].positions = {}
     /\ Len(trades) = trades_synced["w1"])
        => /\ Len(trades) = 1
           /\ trades[1].mt5_ticket = "42"
           /\ trades[1].trade_type = "buy"
           /\ trades[1].open_price = 100
           /\ trades[1].close_price = 110
           /\ trades[1].net_profit = 494
           /\ trades[1].is_closed
           /\ sync_result["w1"].success
           /\ sync_result["w1"].message = SyncedMessage(1)

\* C7 (as claimed): once a run has seen both the entry and the exit of a
\* ticket that is no longer an open position, every ledger row of that
\* (owner, ticket) is closed.
C7_OpenTicketEndsClosed ==
    \A w \in Workers :
        RunDone(w) =>
            \A t \in Tickets :
                (/\ HasEntry(fetched[w].deals, t) /\ HasExit(fetched[w].deals, t)
                 /\ ~\E q \in fetched[w].positions : q.ticket = t)
                    => \A i \in RowsOf(fetched[w].user_id, t) : trades[i].is_closed

\* C15: a step never changes or removes a closed ledger row, and a row it
\* adds is for an (owner, ticket) pair the ledger did not hold.
C15_ClosedRowsImmutable ==
    [][/\ \A i \in 1..Len(trades) :
             trades[i].is_closed => (i <= Len(trades') /\ trades'[i] = trades[i])
       /\ Len(trades') > Len(trades) =>
             /\ Len(trades') = Len(trades) + 1
             /\ \A i \in 1..Len(trades) :
                   ~(/\ trades[i].user_id = trades'[Len(trades')].user_id
                     /\ trades[i].mt5_ticket = trades'[Len(trades')].mt5_ticket)]_vars

\* a second successful run has met a ticket again that the run before it
\* saw closed, and the ledger holds its closed row
C15_Witness ==
    /\ RunDone("w1")
    /\ previous # NoFetch
    /\ \E t \in Tickets :
          /\ HasExit(previous.deals, t) /\ HasExit(fetched["w1"].deals, t)
          /\ \E i \in RowsOf(fetched["w1"].user_id, t) : trades[i].is_closed

\* C16: whenever a Worker is not inside a run of sync_account (it is idle,
\* about to connect, or holds the result of a finished run), it holds no
\* terminal session: every exit path of a run has released it.
C16_SessionReleased ==
    \A w \in Workers :
        pc[w] \in {"idle", "connect", "report"} => mt5_session[w] = NoSession

\* a run that failed after it had logged in and fetched, with its result held
C16_Witness ==
    /\ pc["w1"] = "report"
    /\ ~sync_result["w1"].success
    /\ sync_result["w1"].message = "Error"
    /\ fetched["w1"] # NoFetch
    /\ mt5_session["w1"] = NoSession

\* C17: while later accounts of the due list remain, no step of the Worker
\* ends the cycle: whatever the outcome for the current account (failed
\* connect, exception while fetching, reconciling or persisting, lost status
\* report), the list only loses its head and the Worker goes on to connect
\* the next account.
C17_FailuresIsolated ==
    [][\A w \in Workers :
          Len(todo[w]) >= 2 =>
              /\ pc'[w] # "idle"
              /\ \/ todo'[w] = todo[w]
                 \/ todo'[w] = Tail(todo[w]) /\ pc'[w] = "connect"]_vars

\* in the first cycle the first account was reported as failed and the Worker
\* is about to connect the second one
C17_Witness ==
    /\ cycles = 1
    /\ pc["w1"] = "connect"
    /\ Len(todo["w1"]) = 1
    /\ \E a \in accounts :
           /\ a.id < Head(todo["w1"]).id
           /\ a.last_sync_status = "error"

\* the close times of the closed rows that the current run of sync_account
\* has added to the ledger
ReconciledCloseTimes(w) ==
    {trades[i].close_time :
        i \in {j \in (Len(trades) - trades_synced[w] + 1)..Len(trades) : trades[j].is_closed}}

\* C18: the watermark a Worker reports after a successful run is the close
\* time of the newest closed trade the run has reconciled, and no watermark
\* is reported when the run has reconciled none.
C18_WatermarkIsNewestClose ==
    [][\A w \in Workers :
          (RunDone(w) /\ pc'[w] # "report" /\ req'.op = "vps_status") =>
              LET closed == ReconciledCloseTimes(w)
              IN  req'.update.last_trade_time =
                      IF closed = {} THEN NoTime
                      ELSE CHOOSE t \in closed : \A u \in closed : u <= t]_vars

\* C19: when a run has finished, every open ledger record of a ticket that
\* the run found in the open-positions feed carries the feed's live price as
\* provisional close price and the feed's floating profit as net result.
C19_OpenPositionsUpserted ==
    \A w \in Workers :
        RunDone(w) =>
            \A q \in fetched[w].positions :
                \A i \in RowsOf(fetched[w].user_id, q.ticket) :
                    ~trades[i].is_closed =>
                        /\ trades[i].close_price = q.price_current
                        /\ trades[i].net_profit = q.profit

\* C20: when a run has finished, a ticket that the run found closed in
\* history (entry and exit deal) and also in the open-positions feed has a
\* ledger record, and every ledger record of it is the closed trade.
C20_HistoryWins ==
    \A w \in Workers :
        RunDone(w) =>
            \A t \in Tickets :
                (/\ HasEntry(fetched[w].deals, t) /\ HasExit(fetched[w].deals, t)
                 /\ \E q \in fetched[w].positions : q.ticket = t)
                    => /\ RowsOf(fetched[w].user_id, t) # {}
                       /\ \A i \in RowsOf(fetched[w].user_id, t) : trades[i].is_closed

\* C21: a Worker acquires a terminal session only while it holds none, and
\* the session it holds is the one of the account at the head of its due
\* list: the session of one account is released before the session of the
\* next one is acquired, within a cycle and from one cycle to the next.
C21_SerialSessions ==
    [][\A w \in Workers :
          /\ (mt5_session'[w] # NoSession /\ mt5_session'[w] # mt5_session[w])
                 => mt5_session[w] = NoSession
          /\ mt5_session'[w] # NoSession
                 => /\ todo'[w] # <<>>
                    /\ mt5_session'[w] = Head(todo'[w]).mt5_login]_vars

\* in the first cycle the first account was synced and released and the
\* Worker holds the session of the second account
C21_Witness ==
    /\ cycles = 1
    /\ Len(todo["w1"]) = 1
    /\ mt5_session["w1"] = Head(todo["w1"]).mt5_login
    /\ \E a \in accounts :
           /\ a.id < Head(todo["w1"]).id
           /\ a.last_sync_status = "success"

\* the tickets of the batch a run has fetched (completed positions of its
\* history, open positions of its feed) that have no ledger record
Unreconciled(w) ==
    {t \in Tickets :
        /\ \/ HasEntry(fetched[w].deals, t) /\ HasExit(fetched[w].deals, t)
           \/ \E q \in fetched[w].positions : q.ticket = t
        /\ RowsOf(fetched[w].user_id, t) = {}}

\* C22: when a run has returned, at most one ticket of the batch it fetched
\* is left without a ledger record: a failure on one ticket skips that
\* ticket alone.
C22_OneBadTicketSkipped ==
    \A w \in Workers :
        (pc[w] = "report" /\ fetched[w] # NoFetch) => Cardinality(Unreconciled(w)) <= 1

\* C23: every cycle of the Worker loop below the bound of the model, with
\* whatever failures it meets, is eventually followed by the start of the
\* next cycle.
C23_LoopNeverStops ==
    \A n \in 0..(MaxCycles - 1) : (cycles = n) ~> (cycles = n + 1)

\* a second cycle at work after an account was reported as failed
C23_Witness ==
    /\ cycles = 2
    /\ pc["w1"] = "connect"
    /\ \E a \in accounts : a.last_sync_status = "error"

\* C24: a Worker process that has exited holds no terminal session.
C24_NoSessionAtExit ==
    \A w \in Workers : pc[w] = "exited" => mt5_session[w] = NoSession

\* the fields of an account record that belong to its owner
OwnerFields(a) ==
    [id |-> a.id, user_id |-> a.user_id, mt5_login |-> a.mt5_login,
     mt5_password_encrypted |-> a.mt5_password_encrypted, mt5_server |-> a.mt5_server,
     sync_interval_minutes |-> a.sync_interval_minutes, is_active |-> a.is_active]

\* C25: an accepted status report neither adds nor removes an account, leaves
\* owner, login, encrypted secret, server, sync interval and active flag of
\* every account as they were, and leaves every account other than the
\* reported one entirely unchanged.
C25_ReportFrame ==
    [][(req'.op = "vps_status" /\ resp'.status = 200) =>
          /\ {b.id : b \in accounts'} = {a.id : a \in accounts}
          /\ \A a \in accounts, b \in accounts' :
                 a.id = b.id =>
                     /\ OwnerFields(b) = OwnerFields(a)
                     /\ a.id # req'.account_id => b = a]_vars

\* two accounts are stored and the report on the second one was accepted
C25_Witness ==
    /\ Cardinality(accounts) = 2
    /\ req.op = "vps_status" /\ resp.status = 200
    /\ req.account_id = 2
    /\ \E a \in accounts : a.id = 2 /\ a.last_sync_status # "pending"

\* what a step adds to the running count of a Worker; the step that sends
\* the report starts the count of the next run afresh
Counted(w) ==
    IF pc[w] = "report" /\ pc'[w] # "report" THEN 0
    ELSE trades_synced'[w] - trades_synced[w]

\* C26: every step adds as many rows to the ledger as it adds to the count
\* of the Worker taking it, a row is added only for an (owner, ticket) that
\* had no row, no row is ever removed, and the count in the result of a
\* successful run is the count the run has reached.
C26_CountIsInsertions ==
    [][/\ Len(trades') - Len(trades) = Counted("w1") + Counted("w2")
       /\ Len(trades') >= Len(trades)
       /\ Len(trades') > Len(trades) =>
              ~\E i \in 1..Len(trades) :
                   /\ trades[i].user_id = trades'[Len(trades')].user_id
                   /\ trades[i].mt5_ticket = trades'[Len(trades')].mt5_ticket
       /\ \A w \in Workers :
              RunDone(w)' => sync_result'[w].trades_synced = trades_synced'[w]]_vars

\* the second run has returned: it found one ticket in the ledger and
\* skipped it, inserted the other one and counts one
C26_Witness ==
    /\ cycles = 2
    /\ RunDone("w1")
    /\ sync_result["w1"].trades_synced = 1
    /\ Len(trades) = 2
    /\ trades[1].mt5_ticket # trades[2].mt5_ticket

\* C27: an account leaves the due list of a Worker only by the step that
\* sends its status report, and that step removes it, so each account of
\* the list gets exactly one report; the report is sent with no session
\* held, names the account, and says success exactly when the run returned
\* success, and otherwise error with the reason the run returned; a Worker
\* whose due list is empty holds no session and has nothing to report.
C27_OneReportPerAccount ==
    [][\A w \in Workers :
          /\ todo'[w] # todo[w] /\ todo[w] # <<>>
                 => pc[w] = "report" /\ pc'[w] # "report"
          /\ (pc[w] = "report" /\ pc'[w] # "report") =>
                 /\ todo[w] # <<>> /\ todo'[w] = Tail(todo[w])
                 /\ mt5_session[w] = NoSession
                 /\ req'.op = "vps_status"
                 /\ req'.update.account_id = Head(todo[w]).id
                 /\ req'.update.status = "success" <=> sync_result[w].success
                 /\ req'.update.status # "success" =>
                        /\ req'.update.status = "error"
                        /\ req'.update.message = sync_result[w].message
                        /\ req'.update.message # ""
          /\ todo'[w] = <<>> => pc'[w] = "idle" /\ mt5_session'[w] = NoSession]_vars

\* the report of a failed login was sent for the first of two due accounts
C27_Witness ==
    /\ cycles = 1
    /\ pc["w1"] = "connect"
    /\ Len(todo["w1"]) = 1
    /\ req.op = "vps_status"
    /\ req.update.status = "error"
    /\ req.update.message = "Login failed"
    /\ req.update.account_id # Head(todo["w1"]).id

\* C28: an authenticated status report for a stored account, whatever its
\* status, sets last_sync_at of that account to the current time, and
\* last_sync_at changes in no other way; every account a listing returns has
\* never been reported or was last reported at least sync_interval_minutes
\* ago, and that interval is at least one minute, so an account is not
\* returned right after its report nor at any time before the interval has
\* passed.
C28_ReportPostponesDue ==
    [][/\ (req'.op = "vps_status" /\ req'.x_vps_secret = gwKey')
              => \A b \in accounts' : b.id = req'.account_id => b.last_sync_at = now'
       /\ \A a \in accounts, b \in accounts' :
              (a.id = b.id /\ b.last_sync_at # a.last_sync_at)
                  => req'.op = "vps_status" /\ req'.account_id = a.id
       /\ (req'.op = "vps_accounts" /\ resp'.status = 200) =>
              \A i \in 1..Len(resp'.body) : \A a \in accounts' :
                  a.id = resp'.body[i].id =>
                      \/ a.last_sync_at = NoTime
                      \/ now' >= a.last_sync_at + a.sync_interval_minutes
       /\ \A a \in accounts' : a.sync_interval_minutes >= 1]_vars

\* a listing taken in the minute of a failed account's report returns nothing
C28_Witness ==
    /\ Listed
    /\ resp.body = <<>>
    /\ \E a \in accounts :
           /\ a.is_active
           /\ a.last_sync_status = "error"
           /\ a.last_sync_at = now
           /\ decrypt(gwKey, a.mt5_password_encrypted) \notin {None, <<>>}

\* C29: whenever a position is closed in the terminal's history (entry and
\* exit deal) and the ledger holds no closed trade for it, the stored
\* watermark of its account does not lie after its entry deal, so that a
\* later fetch from the watermark still finds both deals.
C29_WatermarkKeepsClosedPositions ==
    \A a \in accounts : \A t \in Tickets :
        (/\ TicketLogin(t) = a.mt5_login
         /\ HasEntry(deals, t) /\ HasExit(deals, t)
         /\ ~\E i \in RowsOf(a.user_id, t) : trades[i].is_closed
         /\ a.last_trade_time # NoTime)
            => \A d \in deals :
                   (d.type <= 1 /\ d.position_id = t /\ d.entry = 0)
                       => ToTimestamp(a.last_trade_time) <= d.time

\* C30: an accepted create or update request of an owner leaves one record
\* of that owner whose status is pending.  When the request supplies a
\* non-empty password, the stored blob decrypts to that password and is not
\* the password itself; when it supplies none, the stored blob is the one
\* stored before.  An update keeps the record's id, last_sync_at and
\* watermark.  A request without a password for an owner without a record
\* is refused and stores nothing.  So after any sequence of requests the
\* blob decrypts to the last non-empty password supplied.
C30_SecretIsLastSupplied ==
    [][req'.op = "account" =>
          LET u == req'.user
              data == req'.data
              supplied == data.mt5_password # None /\ data.mt5_password # <<>>
              before == {a \in accounts : a.user_id = u}
              after == {b \in accounts' : b.user_id = u}
          IN  IF before = {} /\ ~supplied
              THEN resp'.status = 400 /\ accounts' = accounts
              ELSE /\ resp'.status = 201
                   /\ Cardinality(after) = 1
                   /\ \A b \in after :
                        /\ b.last_sync_status = "pending"
                        /\ supplied =>
                               /\ decrypt(gwKey', b.mt5_password_encrypted) = data.mt5_password
                               /\ b.mt5_password_encrypted # data.mt5_password
                        /\ \A a \in before :
                               /\ b.id = a.id
                               /\ b.last_sync_at = a.last_sync_at
                               /\ b.last_trade_time = a.last_trade_time
                               /\ ~supplied =>
                                      b.mt5_password_encrypted = a.mt5_password_encrypted]_vars

\* an account that has been synced and whose secret is the second password
\* was updated without a password
C30_Witness ==
    /\ req.op = "account" /\ resp.status = 201
    /\ req.data.mt5_password = None
    /\ \E a \in accounts :
           /\ a.user_id = req.user
           /\ a.last_sync_at # NoTime
           /\ a.last_trade_time # NoTime
           /\ decrypt(gwKey, a.mt5_password_encrypted) = Pw2

====
